---- MODULE Spec2Model ----
(***************************************************************************)
(* News Generator: the schedule registrar (scheduler.py), the worker       *)
(* process (worker.py) and the configuration provider (config.py), run     *)
(* against one orchestration backend.                                      *)
(***************************************************************************)
EXTENDS Naturals, Sequences, FiniteSets, TLC

\* ------------------------------------------------------------------ bounds

\* Number of registrar processes started against the same backend.
NumRegistrars == 2

\* Most triggered runs of one Schedule the backend is followed through.
MaxRuns == 2

\* Most work units the worker executes at once.
MaxUnits == 2

\* ----------------------------------------------------------- configuration

\* os.getenv of a variable that is not set.
None == "<None>"

\* Python truthiness of an Optional[str].
Truthy(v) == v # None /\ v # ""

\* os.getenv(name, default)
getenv(e, name, default) == IF e[name] = None THEN default ELSE e[name]

EnvNames ==
    {"TEMPORAL_ADDRESS", "TEMPORAL_NAMESPACE", "TEMPORAL_API_KEY",
     "TEMPORAL_TASK_QUEUE", "GOOGLE_API_KEY", "OPENAI_API_KEY",
     "ANTHROPIC_API_KEY", "DATAFORSEO_LOGIN", "DATAFORSEO_PASSWORD",
     "SERPER_API_KEY"}

\* The class attributes of Config, read from the environment at import.
Config(e) ==
    [TEMPORAL_ADDRESS    |-> getenv(e, "TEMPORAL_ADDRESS", "localhost:7233"),
     TEMPORAL_NAMESPACE  |-> getenv(e, "TEMPORAL_NAMESPACE", "default"),
     TEMPORAL_API_KEY    |-> e["TEMPORAL_API_KEY"],
     TEMPORAL_TASK_QUEUE |-> getenv(e, "TEMPORAL_TASK_QUEUE", "quest-content-queue"),
     GOOGLE_API_KEY      |-> e["GOOGLE_API_KEY"],
     OPENAI_API_KEY      |-> e["OPENAI_API_KEY"],
     ANTHROPIC_API_KEY   |-> e["ANTHROPIC_API_KEY"],
     DATAFORSEO_LOGIN    |-> e["DATAFORSEO_LOGIN"],
     DATAFORSEO_PASSWORD |-> e["DATAFORSEO_PASSWORD"],
     SERPER_API_KEY      |-> e["SERPER_API_KEY"]]

\* The keys of the dict `required`, in insertion order.
required ==
    <<"TEMPORAL_ADDRESS", "TEMPORAL_NAMESPACE", "TEMPORAL_TASK_QUEUE",
      "DATAFORSEO_LOGIN", "DATAFORSEO_PASSWORD", "SERPER_API_KEY">>

\* Variant of has_ai: every AI credential is demanded (all, not any).
has_aiAll(c) ==
    Truthy(c.GOOGLE_API_KEY) /\ Truthy(c.OPENAI_API_KEY) /\ Truthy(c.ANTHROPIC_API_KEY)

\* Variant of has_ai: the Anthropic credential is not counted.
has_aiNoAnthropic(c) ==
    Truthy(c.GOOGLE_API_KEY) \/ Truthy(c.OPENAI_API_KEY)

\* has_ai = any([GOOGLE_API_KEY, OPENAI_API_KEY, ANTHROPIC_API_KEY])
has_ai(c) ==
    Truthy(c.GOOGLE_API_KEY) \/ Truthy(c.OPENAI_API_KEY) \/ Truthy(c.ANTHROPIC_API_KEY)

AI_MISSING == "GOOGLE_API_KEY or OPENAI_API_KEY or ANTHROPIC_API_KEY"

\* Variant of IsMissing: only an unset variable counts as missing.
IsMissingUnset(c, key) == c[key] = None

\* `if not value`
IsMissing(c, key) == ~Truthy(c[key])

\* Config.validate_required: the list of missing required variables.
validate_required(c) ==
    LET missing == SelectSeq(required, LAMBDA key : IsMissing(c, key))
    IN  IF ~has_ai(c) THEN Append(missing, AI_MISSING) ELSE missing

\* What get_ai_model does when no credential is configured:
\* raise ValueError("No AI API key configured").
NoModel == <<"ValueError", "No AI API key configured">>

\* Variant of get_ai_model: the Google credential is looked at first.
get_ai_modelGoogleFirst(c) ==
    IF Truthy(c.GOOGLE_API_KEY) THEN <<"google-gla", "gemini-1.5-flash">>
    ELSE IF Truthy(c.ANTHROPIC_API_KEY)
           THEN <<"anthropic", "claude-3-5-haiku-20241022">>
    ELSE IF Truthy(c.OPENAI_API_KEY) THEN <<"openai", "gpt-4o-mini">>
    ELSE NoModel

\* Config.get_ai_model: (provider, model_name), or the ValueError.
get_ai_model(c) ==
    IF Truthy(c.ANTHROPIC_API_KEY)
      THEN <<"anthropic", "claude-3-5-haiku-20241022">>
    ELSE IF Truthy(c.GOOGLE_API_KEY) THEN <<"google-gla", "gemini-1.5-flash">>
    ELSE IF Truthy(c.OPENAI_API_KEY) THEN <<"openai", "gpt-4o-mini">>
    ELSE NoModel

\* What an environment variable can be: unset, set to the empty string,
\* set to a non-empty string.
EnvValues == {None, "", "set"}

\* Every environment the Config operations can be called in (the backend
\* API key, which neither operation reads, is left unset).
ConfigEnvs == {e \in [EnvNames -> EnvValues] : e["TEMPORAL_API_KEY"] = None}

\* Environments the processes are started in.
FullEnv == [n \in EnvNames |-> "set"]

Envs ==
    {FullEnv,
     [FullEnv EXCEPT !["TEMPORAL_API_KEY"] = None,
                     !["TEMPORAL_TASK_QUEUE"] = None,
                     !["GOOGLE_API_KEY"] = None,
                     !["OPENAI_API_KEY"] = None],
     [FullEnv EXCEPT !["SERPER_API_KEY"] = None],
     [FullEnv EXCEPT !["TEMPORAL_TASK_QUEUE"] = ""],
     [FullEnv EXCEPT !["GOOGLE_API_KEY"] = None,
                     !["OPENAI_API_KEY"] = "",
                     !["ANTHROPIC_API_KEY"] = None]}

\* -------------------------------------------------------------- schedules

\* The fixed app list of scheduler.main.
apps ==
    << <<"placement", "Placement Agent Directory">>,
       <<"relocation", "Global Relocation Directory">> >>

AppNames == {apps[i][1] : i \in 1..Len(apps)}

\* Variant of ScheduleId: the key does not depend on the app.
ScheduleIdFixed(app) == "news-monitor-placement"

\* schedule_id = f"news-monitor-{app}"
ScheduleId(app) == "news-monitor-" \o app

\* Variant of NewSchedule: the input names the default app, not the app of
\* the call.
NewScheduleDefaultApp(app, c) ==
    [id                       |-> ScheduleId(app),
     cron                     |-> "0 9 * * *",
     workflow_type            |-> "NewsCreationWorkflow",
     input                    |-> [app                    |-> "placement",
                                   min_relevance_score    |-> 7,
                                   auto_create_articles   |-> TRUE,
                                   max_articles_to_create |-> 3],
     task_queue               |-> c.TEMPORAL_TASK_QUEUE,
     workflow_id_reuse_policy |-> 1,
     overlap_policy           |-> "SKIP"]

\* Variant of NewSchedule: the overlap policy is left at allow-all.
NewScheduleAllowAll(app, c) ==
    [id                       |-> ScheduleId(app),
     cron                     |-> "0 9 * * *",
     workflow_type            |-> "NewsCreationWorkflow",
     input                    |-> [app                    |-> app,
                                   min_relevance_score    |-> 7,
                                   auto_create_articles   |-> TRUE,
                                   max_articles_to_create |-> 3],
     task_queue               |-> c.TEMPORAL_TASK_QUEUE,
     workflow_id_reuse_policy |-> 1,
     overlap_policy           |-> "ALLOW_ALL"]

\* Variant of NewSchedule: the queue name is written out, not read from the
\* configuration.
NewScheduleDefaultQueue(app, c) ==
    [id                       |-> ScheduleId(app),
     cron                     |-> "0 9 * * *",
     workflow_type            |-> "NewsCreationWorkflow",
     input                    |-> [app                    |-> app,
                                   min_relevance_score    |-> 7,
                                   auto_create_articles   |-> TRUE,
                                   max_articles_to_create |-> 3],
     task_queue               |-> "quest-content-queue",
     workflow_id_reuse_policy |-> 1,
     overlap_policy           |-> "SKIP"]

\* The Schedule create_schedule submits for an app.  min_relevance_score
\* is kept in tenths (7 is 0.7).
NewSchedule(app, c) ==
    [id                       |-> ScheduleId(app),
     cron                     |-> "0 9 * * *",
     workflow_type            |-> "NewsCreationWorkflow",
     input                    |-> [app                    |-> app,
                                   min_relevance_score    |-> 7,
                                   auto_create_articles   |-> TRUE,
                                   max_articles_to_create |-> 3],
     task_queue               |-> c.TEMPORAL_TASK_QUEUE,
     workflow_id_reuse_policy |-> 1,
     overlap_policy           |-> "SKIP"]

\* A Schedule registered under an app's key before this system ran, with
\* attributes other than this system's defaults.
LegacySchedule(app, policy) ==
    [id                       |-> "news-monitor-" \o app,
     cron                     |-> "30 6 * * 1",
     workflow_type            |-> "NewsCreationWorkflow",
     input                    |-> [app                    |-> app,
                                   min_relevance_score    |-> 5,
                                   auto_create_articles   |-> FALSE,
                                   max_articles_to_create |-> 1],
     task_queue               |-> "legacy-queue",
     workflow_id_reuse_policy |-> 1,
     overlap_policy           |-> policy]

ScheduleIds == {"news-monitor-" \o a : a \in AppNames}

WithId(scheds, id) == {s \in scheds : s.id = id}

\* ------------------------------------------------------------------ state

Registrars == 1..NumRegistrars

\* The worker process.
WorkerProc == 0

Procs == {WorkerProc} \cup Registrars

VARIABLES
    env,        \* the environment the processes were started in
    schedules,  \* the Schedules the backend holds
    schedules0, \* the Schedules the backend held before any process ran
    runs,       \* backend: active triggered runs of each Schedule key
    buffered,   \* backend: triggers queued behind an active run, per key
    pc,         \* where each process is
    exitCode,   \* the exit code of a process that has exited
    session,    \* each process's client Session
    connects,   \* Client.connect attempts of each process
    appIdx,     \* registrar: index into apps of the app being registered
    call,       \* registrar: the create_schedule invocation in progress
    returned,   \* the create_schedule calls that returned: <<app, outcome>>
    ops,        \* the backend operations issued: <<app of the call, op, key>>
    interrupted, \* the processes ended by KeyboardInterrupt
    binding,    \* worker: the queue binding of its Worker
    inflight,   \* worker: the handlers of the work units being executed
    missing_vars, \* the list validate_required last returned
    ai_model,   \* what get_ai_model last returned (or raised)
    cfgCalls    \* the Config operations called so far

vars ==
    <<env, schedules, schedules0, runs, buffered, pc, exitCode, session,
      connects, appIdx, call, returned, ops, interrupted, binding,
      inflight, missing_vars, ai_model, cfgCalls>>

\* The worker's work units.
wvars == <<inflight>>

\* The results of the Config operations.
cvars == <<missing_vars, ai_model, cfgCalls>>

config == Config(env)

\* The config object scheduler.py imports (from src.utils.config): the same
\* Configuration Provider, read from the same environment.
scheduler_config == Config(env)

\* The config object process p uses.
ConfigOf(p) == IF p = WorkerProc THEN config ELSE scheduler_config

\* A create_schedule invocation that has issued nothing yet.
NoCall ==
    [outcome |-> "running", getRes |-> "none", createRes |-> "none",
     gets |-> 0, creates |-> 0]

NoBinding == [task_queue |-> "", workflows |-> {}, activities |-> {}]

\* What the backend may hold before this system runs.
InitialSchedules ==
    {{}, {LegacySchedule("placement", "ALLOW_ALL")},
         {LegacySchedule("relocation", "BUFFER_ONE")}}

Init ==
    /\ env \in Envs
    /\ schedules \in InitialSchedules
    /\ schedules0 = schedules
    /\ runs = [id \in ScheduleIds |-> 0]
    /\ buffered = [id \in ScheduleIds |-> 0]
    /\ pc = [p \in Procs |-> "validate"]
    /\ exitCode = [p \in Procs |-> 0]
    /\ session = [p \in Procs |-> "none"]
    /\ connects = [p \in Procs |-> 0]
    /\ appIdx = [p \in Registrars |-> 1]
    /\ call = [p \in Registrars |-> NoCall]
    /\ returned = {}
    /\ ops = {}
    /\ interrupted = {}
    /\ binding = NoBinding
    /\ inflight = {}
    /\ missing_vars = <<>>
    /\ ai_model = <<>>
    /\ cfgCalls = {}

\* The Config operations, called in any environment.
InitConfig ==
    /\ env \in ConfigEnvs
    /\ schedules = {}
    /\ schedules0 = schedules
    /\ runs = [id \in ScheduleIds |-> 0]
    /\ buffered = [id \in ScheduleIds |-> 0]
    /\ pc = [p \in Procs |-> "validate"]
    /\ exitCode = [p \in Procs |-> 0]
    /\ session = [p \in Procs |-> "none"]
    /\ connects = [p \in Procs |-> 0]
    /\ appIdx = [p \in Registrars |-> 1]
    /\ call = [p \in Registrars |-> NoCall]
    /\ returned = {}
    /\ ops = {}
    /\ interrupted = {}
    /\ binding = NoBinding
    /\ inflight = {}
    /\ missing_vars = <<>>
    /\ ai_model = <<>>
    /\ cfgCalls = {}

\* ---------------------------------------------------------------- config.py

\* missing = config.validate_required()
CallValidate ==
    /\ missing_vars' = validate_required(config)
    /\ cfgCalls' = cfgCalls \cup {"validate_required"}
    /\ UNCHANGED <<env, schedules, schedules0, runs, buffered, pc, exitCode,
                   session, connects, appIdx, call, returned, ops,
                   interrupted, binding, wvars, ai_model>>

\* config.get_ai_model()
CallGetAIModel ==
    /\ ai_model' = get_ai_model(config)
    /\ cfgCalls' = cfgCalls \cup {"get_ai_model"}
    /\ UNCHANGED <<env, schedules, schedules0, runs, buffered, pc, exitCode,
                   session, connects, appIdx, call, returned, ops,
                   interrupted, binding, wvars, missing_vars>>

\* ------------------------------------------------- orchestration backend

\* get_schedule(key): the Schedule, NotFoundError, or a backend failure.
GetResults(scheds, id) ==
    (IF WithId(scheds, id) # {} THEN {"found"} ELSE {"NotFoundError"})
        \cup {"BackendError"}

\* create_schedule(key, Schedule): conditional creation, or a backend failure.
CreateResults(scheds, id) ==
    (IF WithId(scheds, id) # {} THEN {"AlreadyExistsError"} ELSE {"ok"})
        \cup {"BackendError"}

\* ------------------------------------------------- both processes' main()

Exit(p, code) ==
    /\ pc' = [pc EXCEPT ![p] = "exited"]
    /\ exitCode' = [exitCode EXCEPT ![p] = code]

\* Variant of AfterValidate: the missing list is reported, the process goes on.
AfterValidateGoOn(missing) == "connect"

\* `if missing: ... sys.exit(1)`
AfterValidate(missing) == IF missing # <<>> THEN "exit" ELSE "connect"

\* main(): validate the configuration.
Validate(p) ==
    /\ pc[p] = "validate"
    /\ IF AfterValidate(validate_required(ConfigOf(p))) = "exit"
         THEN Exit(p, 1)
         ELSE /\ pc' = [pc EXCEPT ![p] = "connect"]
              /\ UNCHANGED exitCode
    /\ UNCHANGED <<wvars, cvars, interrupted, env, schedules, schedules0, runs, buffered, session,
                   connects, appIdx, call, returned, ops, binding>>

\* Most attempts the retrying variant of Connect is followed through.
MaxRetries == 3

\* Variant of Connect: a failed Client.connect is tried again.
ConnectRetrying(p, ok) ==
    /\ pc[p] = "connect"
    /\ connects[p] < MaxRetries
    /\ connects' = [connects EXCEPT ![p] = @ + 1]
    /\ IF ok
         THEN /\ session' = [session EXCEPT ![p] =
                    IF Truthy(ConfigOf(p).TEMPORAL_API_KEY) THEN "open-tls" ELSE "open"]
              /\ pc' = [pc EXCEPT ![p] = IF p = WorkerProc THEN "bind" ELSE "get"]
              /\ UNCHANGED exitCode
         ELSE UNCHANGED <<pc, exitCode, session>>
    /\ UNCHANGED <<wvars, cvars, interrupted, env, schedules, schedules0, runs, buffered, appIdx, call,
                   returned, ops, binding>>

\* main(): Client.connect, with TLS when an API key is configured;
\* `except Exception: ... sys.exit(1)` when it fails.
Connect(p, ok) ==
    /\ pc[p] = "connect"
    /\ connects' = [connects EXCEPT ![p] = @ + 1]
    /\ IF ok
         THEN /\ session' = [session EXCEPT ![p] =
                    IF Truthy(ConfigOf(p).TEMPORAL_API_KEY) THEN "open-tls" ELSE "open"]
              /\ pc' = [pc EXCEPT ![p] = IF p = WorkerProc THEN "bind" ELSE "get"]
              /\ UNCHANGED exitCode
         ELSE /\ Exit(p, 1)
              /\ UNCHANGED session
    /\ UNCHANGED <<wvars, cvars, interrupted, env, schedules, schedules0, runs, buffered, appIdx, call,
                   returned, ops, binding>>

\* __main__: KeyboardInterrupt ends the process with sys.exit(0).
Interrupt(p) ==
    /\ pc[p] # "exited"
    /\ Exit(p, 0)
    /\ interrupted' = interrupted \cup {p}
    /\ UNCHANGED <<wvars, cvars, env, schedules, schedules0, runs, buffered, session,
                   connects, appIdx, call, returned, ops, binding>>

\* ------------------------------------------------------------ scheduler.py

\* Variant of AfterGet: the lookup's result is ignored and creation always
\* follows.
AfterGetAlwaysCreate(res) == "create"

\* create_schedule, the lookup: `return` when get_schedule returned,
\* `except Exception: pass` (go on to create) when it raised.
AfterGet(res) == IF res = "found" THEN "return" ELSE "create"

\* Variant of AfterCreate: the creation's failure is logged, not re-raised.
AfterCreateSwallow(res) == "return"

\* Variant of AfterCreate: AlreadyExistsError is taken as a benign outcome.
AfterCreateBenignExists(res) ==
    IF res \in {"ok", "AlreadyExistsError"} THEN "return" ELSE "raise"

\* create_schedule, the creation: return when it succeeded,
\* `except Exception as e: ... raise` when it did not.
AfterCreate(res) == IF res = "ok" THEN "return" ELSE "raise"

\* Variant of CreateEffect: the Schedule is written whether or not one is
\* there (an upsert).
CreateEffectUpsert(scheds, sched, res) ==
    IF res = "BackendError" THEN scheds
    ELSE {s \in scheds : s.id # sched.id} \cup {sched}

\* What client.create_schedule(schedule_id, ...) does to the backend's
\* Schedules: it adds the Schedule when the backend accepts the creation.
CreateEffect(scheds, sched, res) ==
    IF res = "ok" THEN scheds \cup {sched} ELSE scheds

\* The app whose create_schedule call registrar p is in.
CurrentApp(p) == apps[appIdx[p]][1]

\* Variant of Return: the loop does not move on to the next app.
ReturnSameApp(p, outcome) ==
    /\ returned' = returned \cup {<<CurrentApp(p), outcome>>}
    /\ call' = [call EXCEPT ![p] = NoCall]
    /\ pc' = [pc EXCEPT ![p] = "get"]
    /\ UNCHANGED appIdx

\* create_schedule returns: `for app_name, app_display_name in apps` goes
\* on to the next app, or past the loop to client.close().
Return(p, outcome) ==
    /\ returned' = returned \cup {<<CurrentApp(p), outcome>>}
    /\ call' = [call EXCEPT ![p] = NoCall]
    /\ IF appIdx[p] < Len(apps)
         THEN /\ appIdx' = [appIdx EXCEPT ![p] = @ + 1]
              /\ pc' = [pc EXCEPT ![p] = "get"]
         ELSE /\ pc' = [pc EXCEPT ![p] = "close"]
              /\ UNCHANGED appIdx

\* create_schedule: `schedule = await client.get_schedule(schedule_id)`.
GetSchedule(p, res) ==
    /\ pc[p] = "get"
    /\ LET a == CurrentApp(p)
           id == ScheduleId(a)
       IN  /\ res \in GetResults(schedules, id)
           /\ ops' = ops \cup {<<a, "get", id>>}
           /\ IF AfterGet(res) = "return"
                THEN Return(p, "exists")
                ELSE /\ call' = [call EXCEPT ![p] =
                           [@ EXCEPT !.gets = @ + 1, !.getRes = res]]
                     /\ pc' = [pc EXCEPT ![p] = "create"]
                     /\ UNCHANGED <<appIdx, returned>>
    /\ UNCHANGED <<wvars, cvars, interrupted, env, schedules, schedules0, runs, buffered, exitCode,
                   session, connects, binding>>

\* create_schedule: `await client.create_schedule(schedule_id, ...)`; a
\* failure is re-raised, leaves main() and ends the process with code 1.
CreateSchedule(p, res) ==
    /\ pc[p] = "create"
    /\ LET a == CurrentApp(p)
           id == ScheduleId(a)
       IN  /\ res \in CreateResults(schedules, id)
           /\ ops' = ops \cup {<<a, "create", id>>}
           /\ schedules' = CreateEffect(schedules, NewSchedule(a, scheduler_config), res)
           /\ IF AfterCreate(res) = "return"
                THEN Return(p, "created") /\ UNCHANGED exitCode
                ELSE /\ call' = [call EXCEPT ![p] =
                           [@ EXCEPT !.creates = @ + 1, !.createRes = res,
                                     !.outcome = "error"]]
                     /\ Exit(p, 1)
                     /\ UNCHANGED <<appIdx, returned>>
    /\ UNCHANGED <<wvars, cvars, interrupted, env, schedules0, runs, buffered, session, connects, binding>>

\* main(): `await client.close()`, then the process ends.
Close(p) ==
    /\ pc[p] = "close"
    /\ session' = [session EXCEPT ![p] = "closed"]
    /\ Exit(p, 0)
    /\ UNCHANGED <<wvars, cvars, interrupted, env, schedules, schedules0, runs, buffered, connects,
                   appIdx, call, returned, ops, binding>>

\* --------------------------------------------------------------- worker.py

Activities ==
    {"dataforseo_news_search", "serper_news_search", "assess_news_batch",
     "get_recent_articles_from_neon", "query_zep_for_context",
     "build_intelligent_video_prompt"}

\* main(): `worker = Worker(client, task_queue=..., workflows=[...], ...)`.
Bind ==
    /\ pc[WorkerProc] = "bind"
    /\ binding' = [task_queue |-> config.TEMPORAL_TASK_QUEUE,
                   workflows  |-> {"NewsCreationWorkflow"},
                   activities |-> Activities]
    /\ pc' = [pc EXCEPT ![WorkerProc] = "run"]
    /\ UNCHANGED <<wvars, cvars, interrupted, env, schedules, schedules0, runs, buffered, exitCode,
                   session, connects, appIdx, call, returned, ops>>

\* `await worker.run()` raises: __main__ reports the crash, sys.exit(1).
RunFails ==
    /\ pc[WorkerProc] = "run"
    /\ Exit(WorkerProc, 1)
    /\ UNCHANGED <<wvars, cvars, interrupted, env, schedules, schedules0, runs, buffered, session,
                   connects, appIdx, call, returned, ops, binding>>

\* ----------------------------------------------- worker.run(): dispatch

\* The handlers a binding registers.
Handlers(b) == b.workflows \cup b.activities

\* The backend dispatches a work unit; the loop starts its handler.
AcceptUnit(h) ==
    /\ pc[WorkerProc] = "run"
    /\ h \in Handlers(binding) \ inflight
    /\ Cardinality(inflight) < MaxUnits
    /\ inflight' = inflight \cup {h}
    /\ UNCHANGED <<cvars, interrupted, env, schedules,
                   schedules0, runs, buffered, pc, exitCode, session,
                   connects, appIdx, call, returned, ops, binding>>

\* A handler in flight finishes.
FinishUnit(h) ==
    /\ pc[WorkerProc] \in {"run", "draining"}
    /\ h \in inflight
    /\ inflight' = inflight \ {h}
    /\ UNCHANGED <<cvars, interrupted, env, schedules,
                   schedules0, runs, buffered, pc, exitCode, session,
                   connects, appIdx, call, returned, ops, binding>>

\* KeyboardInterrupt while main() awaits worker.run(): the run is cancelled
\* and the units in flight are left to finish.
CancelRun ==
    /\ pc[WorkerProc] = "run"
    /\ pc' = [pc EXCEPT ![WorkerProc] = "draining"]
    /\ interrupted' = interrupted \cup {WorkerProc}
    /\ UNCHANGED <<wvars, cvars, env, schedules, schedules0, runs, buffered,
                   exitCode, session, connects, appIdx, call, returned, ops,
                   binding>>

\* The cancelled worker.run() returns once nothing is in flight; __main__
\* reports the stop and calls sys.exit(0).
RunReturns ==
    /\ pc[WorkerProc] = "draining"
    /\ inflight = {}
    /\ Exit(WorkerProc, 0)
    /\ UNCHANGED <<wvars, cvars, interrupted, env, schedules, schedules0,
                   runs, buffered, session, connects, appIdx, call, returned,
                   ops, binding>>

\* ------------------------------------------------------ backend triggers

\* The cron point of the Schedule under a key is reached.
Fire(id) ==
    /\ \E s \in WithId(schedules, id) :
          CASE s.overlap_policy = "SKIP" ->
                 /\ runs' = IF runs[id] > 0 THEN runs
                            ELSE [runs EXCEPT ![id] = 1]
                 /\ UNCHANGED buffered
            [] s.overlap_policy = "BUFFER_ONE" ->
                 IF runs[id] > 0
                   THEN buffered' = [buffered EXCEPT ![id] = 1]
                        /\ UNCHANGED runs
                   ELSE runs' = [runs EXCEPT ![id] = 1]
                        /\ UNCHANGED buffered
            [] OTHER ->
                 /\ runs[id] < MaxRuns
                 /\ runs' = [runs EXCEPT ![id] = @ + 1]
                 /\ UNCHANGED buffered
    /\ UNCHANGED <<wvars, cvars, interrupted, env, schedules, schedules0, pc, exitCode, session,
                   connects, appIdx, call, returned, ops, binding>>

\* A triggered run ends; a trigger queued behind it starts.
Complete(id) ==
    /\ runs[id] > 0
    /\ IF buffered[id] > 0 /\ runs[id] = 1
         THEN buffered' = [buffered EXCEPT ![id] = 0] /\ UNCHANGED runs
         ELSE runs' = [runs EXCEPT ![id] = @ - 1] /\ UNCHANGED buffered
    /\ UNCHANGED <<wvars, cvars, interrupted, env, schedules, schedules0, pc, exitCode, session,
                   connects, appIdx, call, returned, ops, binding>>

\* ---------------------------------------------------------- specifications

GetOutcomes == {"found", "NotFoundError", "BackendError"}

CreateOutcomes == {"ok", "AlreadyExistsError", "BackendError"}

\* The registrar processes against the backend.
Next ==
    \/ \E p \in Registrars : Validate(p)
    \/ \E p \in Registrars, ok \in BOOLEAN : Connect(p, ok)
    \/ \E p \in Registrars : Interrupt(p)
    \/ \E p \in Registrars, res \in GetOutcomes : GetSchedule(p, res)
    \/ \E p \in Registrars, res \in CreateOutcomes : CreateSchedule(p, res)
    \/ \E p \in Registrars : Close(p)

Spec == Init /\ [][Next]_vars

\* A step of registrar p's own code: every call it awaits returns.
RegistrarStep(p) ==
    \/ Validate(p)
    \/ \E ok \in BOOLEAN : Connect(p, ok)
    \/ \E res \in GetOutcomes : GetSchedule(p, res)
    \/ \E res \in CreateOutcomes : CreateSchedule(p, res)
    \/ Close(p)

\* The registrar processes, each running as long as it has a step to take.
SpecFair == Spec /\ \A p \in Registrars : WF_vars(RegistrarStep(p))

\* The registrar processes and the worker process.
NextProcs ==
    \/ Next
    \/ Validate(WorkerProc)
    \/ \E ok \in BOOLEAN : Connect(WorkerProc, ok)
    \/ Interrupt(WorkerProc)
    \/ Bind
    \/ RunFails

SpecProcs == Init /\ [][NextProcs]_vars

\* The registrar processes and the backend's triggers.
NextRuns ==
    \/ Next
    \/ \E id \in ScheduleIds : Fire(id)
    \/ \E id \in ScheduleIds : Complete(id)

SpecRuns == Init /\ [][NextRuns]_vars

\* The Config operations on their own.
NextConfig ==
    \/ CallValidate
    \/ CallGetAIModel

SpecConfig == InitConfig /\ [][NextConfig]_vars

\* The worker process with its dispatch loop.
NextWorker ==
    \/ Validate(WorkerProc)
    \/ \E ok \in BOOLEAN : Connect(WorkerProc, ok)
    \/ pc[WorkerProc] \in {"validate", "connect", "bind"} /\ Interrupt(WorkerProc)
    \/ Bind
    \/ RunFails
    \/ \E h \in Handlers(binding) : AcceptUnit(h)
    \/ \E h \in inflight : FinishUnit(h)
    \/ CancelRun
    \/ RunReturns

SpecWorker == Init /\ [][NextWorker]_vars

\* ------------------------------------------------------------- properties

\* The key an app's Schedule is expected under.
KeyOf(a) == "news-monitor-" \o a

\* Some create_schedule call for app a has returned without error.
Registered(a) == \E o \in {"exists", "created"} : <<a, o>> \in returned

\* This step is registrar p's get_schedule.
IsGetStep(p) ==
    /\ pc[p] = "get"
    /\ pc'[p] \in {"get", "create", "close"}
    /\ <<pc'[p], appIdx'[p]>> # <<pc[p], appIdx[p]>>

\* This step is registrar p's create_schedule on the backend.
IsCreateStep(p) ==
    /\ pc[p] = "create"
    /\ pc'[p] # "create"
    /\ p \notin interrupted'

\* C1: a create_schedule call for an app made after a call for the same app
\* has returned, with no backend failure, returns "already exists" without
\* calling the backend's create_schedule, and exactly one Schedule is under
\* the app's key afterwards.
C1_IdempotentRegistration ==
    [][\A p \in Registrars :
          (/\ IsGetStep(p)
           /\ Registered(CurrentApp(p))
           /\ call'[p].getRes # "BackendError")
          => /\ pc'[p] \in {"get", "close"}
             /\ <<CurrentApp(p), "exists">> \in returned'
             /\ \A o \in ops' \ ops : o[2] = "get"
             /\ call'[p].creates = 0
             /\ schedules' = schedules
             /\ Cardinality(WithId(schedules', KeyOf(CurrentApp(p)))) = 1]_vars

\* C1 witness: from an empty backend, one call created the placement
\* Schedule and a later call for placement returned "already exists".
C1_Witness ==
    /\ schedules0 = {}
    /\ <<"placement", "created">> \in returned
    /\ <<"placement", "exists">> \in returned

\* C2 (as claimed): once get_schedule has failed with a backend failure, the
\* call never goes on to creation: it ends in an error with no creation
\* submitted.
C2_GetFailurePropagates ==
    \A p \in Registrars :
        call[p].getRes = "BackendError"
        => pc[p] # "create" /\ call[p].creates = 0

\* C3: the backend holds at most one Schedule under each key, and exactly
\* one under the key of every app for which a create_schedule call has
\* returned without error.
C3_AtMostOnePerKey ==
    /\ \A id \in ScheduleIds : Cardinality(WithId(schedules, id)) <= 1
    /\ \A a \in AppNames :
          Registered(a) => Cardinality(WithId(schedules, KeyOf(a))) = 1

\* C3 witness: one registrar created an app's Schedule, and another's call
\* for that app, its lookup having failed, submitted a creation and failed.
C3_Witness ==
    \E a \in AppNames :
        /\ <<a, "created">> \in returned
        /\ \E p \in Registrars :
              /\ CurrentApp(p) = a
              /\ call[p].outcome = "error"
              /\ call[p].getRes = "BackendError"
              /\ call[p].createRes = "AlreadyExistsError"

\* C4 (as claimed): a process that connected and has exited has closed its
\* Session.
C4_SessionClosedOnExit ==
    \A p \in Procs :
        (pc[p] = "exited" /\ session[p] # "none") => session[p] = "closed"

\* C5: a registrar that saw the Schedule absent and submits its creation
\* after another caller created it gets an error (the process ends with
\* code 1) and leaves the backend's Schedules as they are; a creation
\* submitted while the key is free leaves exactly one Schedule under it;
\* no invocation submits creation more than once.
C5_RaceLoserFails ==
    [][\A p \in Registrars :
          IsCreateStep(p) =>
            /\ call[p].creates = 0
            /\ (WithId(schedules, KeyOf(CurrentApp(p))) # {}
                  => /\ pc'[p] = "exited"
                     /\ exitCode'[p] = 1
                     /\ call'[p].outcome = "error"
                     /\ call'[p].creates = 1
                     /\ returned' = returned
                     /\ schedules' = schedules)
            /\ (pc'[p] # "exited"
                  => /\ WithId(schedules, KeyOf(CurrentApp(p))) = {}
                     /\ Cardinality(WithId(schedules', KeyOf(CurrentApp(p)))) = 1
                     /\ <<CurrentApp(p), "created">> \in returned')]_vars

\* C5 witness: two registrars both saw the placement Schedule absent; one
\* created it, the other's creation failed with AlreadyExistsError and its
\* process ended with code 1.
C5_Witness ==
    /\ schedules0 = {}
    /\ <<"placement", "created">> \in returned
    /\ \E p \in Registrars :
          /\ CurrentApp(p) = "placement"
          /\ call[p].getRes = "NotFoundError"
          /\ call[p].createRes = "AlreadyExistsError"
          /\ call[p].outcome = "error"
          /\ pc[p] = "exited"
          /\ exitCode[p] = 1

\* C6: when validate_required reports a missing setting, no process ever
\* attempts to connect, looks up or creates a Schedule, or binds a queue,
\* and a process that exits other than by KeyboardInterrupt exits with
\* code 1.
C6_ValidateBeforeConnect ==
    validate_required(config) # <<>> =>
        /\ \A p \in Procs :
              /\ connects[p] = 0
              /\ session[p] = "none"
              /\ pc[p] \in {"validate", "exited"}
              /\ (pc[p] = "exited" /\ p \notin interrupted) => exitCode[p] = 1
        /\ ops = {}
        /\ schedules = schedules0
        /\ binding = NoBinding

\* C6 witness: with a required setting missing, a registrar and the worker
\* have both exited with code 1.
C6_Witness ==
    /\ validate_required(config) # <<>>
    /\ \A p \in {WorkerProc, 1} :
          pc[p] = "exited" /\ exitCode[p] = 1 /\ p \notin interrupted

\* A registrar process that ran to the end of main().
Completed(p) == pc[p] = "exited" /\ session[p] = "closed"

\* The Schedule the end-to-end scenario expects under an app's key.
ExpectedSchedule(a) ==
    [id                       |-> KeyOf(a),
     cron                     |-> "0 9 * * *",
     workflow_type            |-> "NewsCreationWorkflow",
     input                    |-> [app                    |-> a,
                                   min_relevance_score    |-> 7,
                                   auto_create_articles   |-> TRUE,
                                   max_articles_to_create |-> 3],
     task_queue               |-> config.TEMPORAL_TASK_QUEUE,
     workflow_id_reuse_policy |-> 1,
     overlap_policy           |-> "SKIP"]

\* C7: from a backend with no Schedules, once a registrar has run to the
\* end of main() the backend holds exactly the Schedules under
\* news-monitor-placement and news-monitor-relocation, each with cron
\* "0 9 * * *", overlap policy SKIP, the configured task queue and the
\* default input, the inputs differing only in the app, which is the app
\* of the key.
C7_EndToEnd ==
    (schedules0 = {} /\ \E p \in Registrars : Completed(p)) =>
        /\ schedules = {ExpectedSchedule("placement"),
                        ExpectedSchedule("relocation")}
        /\ {s.id : s \in schedules} =
              {"news-monitor-placement", "news-monitor-relocation"}
        /\ \A s \in schedules :
              /\ s.cron = "0 9 * * *"
              /\ s.overlap_policy = "SKIP"
              /\ s.id = "news-monitor-" \o s.input.app
              /\ [s.input EXCEPT !.app = ""] =
                    [app |-> "", min_relevance_score |-> 7,
                     auto_create_articles |-> TRUE,
                     max_articles_to_create |-> 3]

\* C7 witness: a registrar started on an empty backend created both
\* Schedules itself, with no backend failure, and ran to the end.
C7_Witness ==
    /\ schedules0 = {}
    /\ returned = {<<"placement", "created">>, <<"relocation", "created">>}
    /\ Completed(1)
    /\ pc[2] = "validate"
    /\ ops = {<<a, o, KeyOf(a)>> : a \in AppNames, o \in {"get", "create"}}

\* This step is a backend operation of a create_schedule call of p.
IsBackendStep(p) == IsGetStep(p) \/ IsCreateStep(p)

\* C8: a create_schedule call for an app issues backend operations only on
\* that app's key and leaves the Schedules under every other key as they
\* are.
C8_Isolation ==
    [][\A p \in Registrars :
          IsBackendStep(p) =>
            /\ <<CurrentApp(p), IF IsGetStep(p) THEN "get" ELSE "create",
                  KeyOf(CurrentApp(p))>> \in ops'
            /\ \A o \in ops' \ ops :
                  o[1] = CurrentApp(p) /\ o[3] = KeyOf(CurrentApp(p))
            /\ {s \in schedules' : s.id # KeyOf(CurrentApp(p))} =
                  {s \in schedules : s.id # KeyOf(CurrentApp(p))}]_vars

\* C8 witness: the placement Schedule was looked up and created while the
\* relocation Schedule, registered earlier by others, is in the backend.
C8_Witness ==
    /\ LegacySchedule("relocation", "BUFFER_ONE") \in schedules
    /\ <<"placement", "created">> \in returned
    /\ ops = {<<"placement", "get", "news-monitor-placement">>,
              <<"placement", "create", "news-monitor-placement">>}

\* C9: no step removes or changes a Schedule the backend holds.
C9_NeverMutated ==
    [][\A s \in schedules : s \in schedules']_vars

\* C9 witness: a Schedule registered earlier with other attributes is in
\* the backend after one registrar's call for its app returned "already
\* exists" and another's, its lookup having failed, submitted a creation.
C9_Witness ==
    /\ LegacySchedule("placement", "ALLOW_ALL") \in schedules
    /\ <<"placement", "exists">> \in returned
    /\ \E p \in Registrars :
          /\ CurrentApp(p) = "placement"
          /\ call[p].createRes = "AlreadyExistsError"

\* C10: a Schedule registered by this system has overlap policy SKIP, has
\* at most one active triggered run and has no trigger queued behind it.
C10_OverlapSafety ==
    \A s \in schedules \ schedules0 :
        /\ s.overlap_policy = "SKIP"
        /\ runs[s.id] <= 1
        /\ buffered[s.id] = 0

\* C10 witness: a run of a Schedule registered by this system is active
\* and the Schedule's trigger can fire again.
C10_Witness ==
    \E s \in schedules \ schedules0 :
        /\ runs[s.id] = 1
        /\ ENABLED Fire(s.id)

\* C12: the worker is in its dispatch loop only with a non-empty queue name
\* and a non-empty handler set; when the queue name is empty the worker
\* never binds, never reaches worker.run, accepts no work unit, and an exit
\* is a failure (code 1) unless the process was interrupted first.
C12_StartupFailsFast ==
    /\ pc[WorkerProc] \in {"run", "draining"} \/ inflight # {}
          => binding.task_queue # "" /\ Handlers(binding) # {}
    /\ config.TEMPORAL_TASK_QUEUE = ""
          => /\ pc[WorkerProc] \in {"validate", "exited"}
             /\ binding = NoBinding
             /\ inflight = {}
             /\ connects[WorkerProc] = 0
             /\ pc[WorkerProc] = "exited" /\ WorkerProc \notin interrupted
                   => exitCode[WorkerProc] = 1

C12_Witness ==
    /\ config.TEMPORAL_TASK_QUEUE = ""
    /\ pc[WorkerProc] = "exited"
    /\ exitCode[WorkerProc] = 1
    /\ WorkerProc \notin interrupted
    /\ binding = NoBinding

\* The AI credentials in priority order: provider A, B, C.
Priority ==
    << <<"ANTHROPIC_API_KEY", "anthropic">>,
       <<"GOOGLE_API_KEY", "google-gla">>,
       <<"OPENAI_API_KEY", "openai">> >>

Present(name) == env[name] \notin {None, ""}

\* C14: once get_ai_model has been called, its result names the first
\* provider in the order A, B, C whose credential is present, whatever the
\* credentials after it are, and it is the configuration error exactly when
\* no credential is present.
C14_FixedPriority ==
    "get_ai_model" \in cfgCalls =>
        /\ \A i \in 1..Len(Priority) :
              (/\ Present(Priority[i][1])
               /\ \A j \in 1..(i - 1) : ~Present(Priority[j][1]))
                 => ai_model[1] = Priority[i][2]
        /\ ai_model = NoModel
              <=> \A i \in 1..Len(Priority) : ~Present(Priority[i][1])

\* A and C present, B absent: A is selected.
C14_Witness ==
    /\ "get_ai_model" \in cfgCalls
    /\ Present("ANTHROPIC_API_KEY")
    /\ ~Present("GOOGLE_API_KEY")
    /\ Present("OPENAI_API_KEY")
    /\ ai_model[1] = "anthropic"

RequiredNames == {required[i] : i \in 1..Len(required)}

\* The required settings the environment lacks: unset or set to nothing.
EnvMissing == {k \in RequiredNames : ~Present(k)}

\* The required settings Config reads with a default.
Defaulted == {"TEMPORAL_ADDRESS", "TEMPORAL_NAMESPACE", "TEMPORAL_TASK_QUEUE"}

\* The required settings without an effective value: unset or empty, or,
\* for a setting with a default, set to the empty string.
EffMissing ==
    {k \in RequiredNames :
        IF k \in Defaulted THEN env[k] = "" ELSE ~Present(k)}

AnyAI == \E i \in 1..Len(Priority) : Present(Priority[i][1])

\* How many times an item is in a list.
Count(seq, x) == Cardinality({i \in 1..Len(seq) : seq[i] = x})

\* Validation completeness over a set of missing settings.
Completeness(lacking) ==
    "validate_required" \in cfgCalls =>
        /\ Cardinality(lacking) = 1 /\ AnyAI
              => Len(missing_vars) = 1 /\ missing_vars[1] \in lacking
        /\ ~AnyAI => Count(missing_vars, AI_MISSING) = 1
        /\ missing_vars = <<>> <=> lacking = {} /\ AnyAI

C19_ValidateAndSelectAgree ==
    cfgCalls = {"validate_required", "get_ai_model"} =>
        /\ ai_model = NoModel <=> Count(missing_vars, AI_MISSING) > 0
        /\ missing_vars = <<>> =>
              ai_model[1] \in {Priority[i][2] : i \in 1..Len(Priority)}

\* Validation passed with the Anthropic credential alone, and the
\* selection returned Anthropic.
C19_Witness ==
    /\ cfgCalls = {"validate_required", "get_ai_model"}
    /\ missing_vars = <<>>
    /\ ~Present("GOOGLE_API_KEY") /\ ~Present("OPENAI_API_KEY")
    /\ ai_model[1] = "anthropic"

\* C15: a registrar moves on to "relocation" only in the step in which its
\* own create_schedule call for "placement" returns, and it is in the
\* "relocation" call only after a "placement" call has returned; a
\* create_schedule that raises ends the process with code 1 without moving
\* on to the next app; and a process that has exited issues nothing more.
C15_SequentialFailStop ==
    [][\A p \in Registrars :
         /\ appIdx'[p] # appIdx[p]
               => /\ apps[appIdx[p]][1] = "placement"
                  /\ apps[appIdx'[p]][1] = "relocation"
                  /\ pc[p] \in {"get", "create"}
                  /\ pc'[p] = "get"
                  /\ call'[p] = NoCall
                  /\ Registered("placement")'
         /\ pc[p] \in {"get", "create"} /\ CurrentApp(p) = "relocation"
               => Registered("placement")
         /\ IsCreateStep(p) /\ schedules' = schedules
               => /\ pc'[p] = "exited"
                  /\ exitCode'[p] = 1
                  /\ appIdx'[p] = appIdx[p]
                  /\ call'[p].outcome = "error"
         /\ pc[p] = "exited"
               => /\ pc'[p] = "exited"
                  /\ exitCode'[p] = exitCode[p]
                  /\ appIdx'[p] = appIdx[p]
                  /\ call'[p] = call[p]]_vars

\* A registrar's "placement" registration raised: the process has exited
\* with code 1 and only "placement" operations were ever issued.
C15_Witness ==
    \E p \in Registrars :
        /\ pc[p] = "exited"
        /\ exitCode[p] = 1
        /\ call[p].outcome = "error"
        /\ CurrentApp(p) = "placement"
        /\ \A o \in ops : o[1] = "placement"
        /\ \A q \in Registrars \ {p} : pc[q] = "validate"

\* Process p's Client.connect was attempted and failed.
ConnectFailed(p) == connects[p] >= 1 /\ session[p] = "none"

\* C16: no process attempts Client.connect more than once; a process whose
\* attempt failed has exited with code 1, and it has performed no schedule
\* lookup or creation (registrar) and no queue binding (worker).
C16_ConnectFailureFatal ==
    \A p \in Procs :
        /\ connects[p] <= 1
        /\ ConnectFailed(p)
              => /\ pc[p] = "exited"
                 /\ exitCode[p] = 1
                 /\ p \in Registrars => call[p] = NoCall /\ appIdx[p] = 1
                 /\ p = WorkerProc => binding = NoBinding

\* Both a registrar's and the worker's connection failed.
C16_Witness ==
    /\ ConnectFailed(WorkerProc)
    /\ exitCode[WorkerProc] = 1
    /\ \E p \in Registrars : ConnectFailed(p) /\ exitCode[p] = 1

Rank(p) ==
    CASE pc[p] = "validate" -> 2 * Len(apps) + 3
      [] pc[p] = "connect"  -> 2 * Len(apps) + 2
      [] pc[p] = "get"      -> 2 * (Len(apps) - appIdx[p]) + 3
      [] pc[p] = "create"   -> 2 * (Len(apps) - appIdx[p]) + 2
      [] pc[p] = "close"    -> 1
      [] OTHER              -> 0

\* C18: every step of a registrar brings it closer to its exit, so it
\* issues the get_schedule and the create_schedule of an app at most once
\* and never goes back to an app; a registrar whose calls all return
\* eventually exits; and one that exits uninterrupted has either completed
\* (code 0, session closed) or failed (code 1).
C18_Terminates ==
    /\ [][\A p \in Registrars :
             <<pc[p], appIdx[p]>>' # <<pc[p], appIdx[p]>>
                => Rank(p)' < Rank(p)]_vars
    /\ \A p \in Registrars : <>(pc[p] = "exited")
    /\ [](\A p \in Registrars :
             pc[p] = "exited" /\ p \notin interrupted
                => \/ exitCode[p] = 0 /\ session[p] = "closed"
                   \/ exitCode[p] = 1)

\* Every registrar has ended uninterrupted, one having completed and one
\* having failed in create_schedule.
C18_Witness ==
    /\ \A p \in Registrars : pc[p] = "exited"
    /\ interrupted = {}
    /\ \E p \in Registrars : exitCode[p] = 0 /\ session[p] = "closed"
    /\ \E p \in Registrars : exitCode[p] = 1 /\ call[p].outcome = "error"

====
